---- MODULE Spec2Model ----
(***************************************************************************)
(* caep.schema: building an argparse parser from a pydantic schema,        *)
(* resolving every field from command line, environment and ini section,   *)
(* splitting list fields, and validating the result (load), together with  *)
(* the escape-aware splitter escape_split.                                 *)
(*                                                                         *)
(* Python strings are sequences of one-character strings, so that          *)
(* splitting, unescaping, dash/underscore replacement and case folding are *)
(* computed character by character as the code computes them.              *)
(***************************************************************************)
EXTENDS Naturals, Sequences, FiniteSets

VARIABLES
    \* ---- escape_split(value, split) -----------------------------------
    value,      \* the string to split
    split,      \* the delimiter, interpolated into the regular expression
    tokens,     \* the returned list
    spc,        \* "idle" | "call" | "done"
    \* ---- load(model, ..., opts, raise_on_validation_error) -------------
    fields,     \* model.schema()["properties"], in declaration order
    raise_on_validation_error,
    exit_on_validation_error,   \* a parameter load never reads
    pc,         \* "idle" | "start" | "built" | "parsed" | "split" | "done"
    parser,     \* the options added by build_parser, in order
    arrays,     \* build_parser's table of list fields
    opts,       \* command line: dest -> absent | flag without value | raw
    environ,    \* process environment: variable name -> absent | raw
    ini,        \* the ini section: key -> absent | raw
    read,       \* whether the three sources have been read
    args,       \* the Namespace returned by handle_args
    kwargs,     \* split_lists' result, passed to the constructor call of the model
    outcome,    \* how load ended
    stdout,     \* what load printed, in order
    result      \* the object load returned

splitVars == <<value, split, tokens, spc>>
loadVars == <<fields, raise_on_validation_error, exit_on_validation_error, pc,
              parser, arrays, opts,
              environ, ini, read, args, kwargs, outcome, stdout, result>>
vars == <<value, split, tokens, spc, fields, raise_on_validation_error,
          exit_on_validation_error, pc,
          parser, arrays, opts, environ, ini, read, args, kwargs, outcome,
          stdout, result>>

(***************************************************************************)
(* Bounds                                                                  *)
(***************************************************************************)
\* longest string handed to escape_split
MaxLen == 4

\* characters of the strings handed to escape_split
Alphabet == {"a", "\\", ",", " "}

\* delimiters handed to escape_split; "." is a regular-expression wildcard
Delims == {",", " ", "."}

BS == "\\"

(***************************************************************************)
(* String helpers                                                          *)
(***************************************************************************)
RECURSIVE StringsUpTo(_)
StringsUpTo(n) ==
    IF n = 0 THEN {<<>>}
    ELSE LET shorter == StringsUpTo(n - 1)
         IN  shorter \cup {Append(s, c) : s \in {t \in shorter : Len(t) = n - 1},
                                          c \in Alphabet}

\* str.replace(old, new) for one-character old and new
Replace(s, old, new) == [i \in DOMAIN s |-> IF s[i] = old THEN new ELSE s[i]]

RECURSIVE Flatten(_)
Flatten(ss) == IF ss = <<>> THEN <<>> ELSE Head(ss) \o Flatten(Tail(ss))

Count(s, c) == Cardinality({i \in DOMAIN s : s[i] = c})

(***************************************************************************)
(* Regular expressions of schema.py                                        *)
(***************************************************************************)
\* the pattern {split}: the delimiter is interpolated unescaped, so "." is
\* the wildcard and matches any character (no string here holds a newline)
PatternMatches(sp, c) == IF sp = "." THEN TRUE ELSE c = sp

\* (?<!\\){split} matches at position i of s
SplitsAt(s, sp, i) == PatternMatches(sp, s[i]) /\ (i = 1 \/ s[i - 1] # BS)

RECURSIVE ReSplitFrom(_, _, _, _, _)
ReSplitFrom(s, sp, i, cur, acc) ==
    IF i > Len(s) THEN Append(acc, cur)
    ELSE IF SplitsAt(s, sp, i)
         THEN ReSplitFrom(s, sp, i + 1, <<>>, Append(acc, cur))
         ELSE ReSplitFrom(s, sp, i + 1, Append(cur, s[i]), acc)

\* re.split(rf"(?<!\\){split}", value)
ReSplit(s, sp) == ReSplitFrom(s, sp, 1, <<>>, <<>>)

\* (?<!\\)\\ matches at position i of v
UnescapesAt(v, i) == v[i] = BS /\ (i = 1 \/ v[i - 1] # BS)

RECURSIVE ReSubFrom(_, _)
ReSubFrom(v, i) ==
    IF i > Len(v) THEN <<>>
    ELSE IF UnescapesAt(v, i) THEN ReSubFrom(v, i + 1)
         ELSE <<v[i]>> \o ReSubFrom(v, i + 1)

\* a slip: nothing is unescaped
ReSubKeepAll(v) == v

\* re.sub(r"(?<!\\)\\", "", v)
ReSub(v) == ReSubFrom(v, 1)

escape_split(v, sp) == LET parts == ReSplit(v, sp)
                       IN  [k \in DOMAIN parts |-> ReSub(parts[k])]

(***************************************************************************)
(* Python values                                                           *)
(***************************************************************************)
None == [none |-> TRUE]
Str(s) == [str |-> s]
Int(n) == [int |-> n]
Float(n) == [float |-> n]
Bool(b) == [bool |-> b]
List(l) == [list |-> l]

IsNone(x) == "none" \in DOMAIN x
IsStr(x) == "str" \in DOMAIN x
IsBool(x) == "bool" \in DOMAIN x
IsList(x) == "list" \in DOMAIN x

\* a key that a mapping (schema entry, command line, environment, ini
\* section) does not hold
Absent == [absent |-> TRUE]
IsAbsent(x) == "absent" \in DOMAIN x

\* an option given on the command line with no value token after it
NoValue == [novalue |-> TRUE]
IsNoValue(x) == "novalue" \in DOMAIN x

\* the exception raised by a failed conversion
Raises == [raises |-> TRUE]
IsRaises(x) == "raises" \in DOMAIN x

\* Python truthiness of the values a Namespace of this parser can hold
Truthy(x) ==
    IF IsNone(x) THEN FALSE
    ELSE IF IsStr(x) THEN x.str # <<>>
    ELSE IF IsList(x) THEN x.list # <<>>
    ELSE IF IsBool(x) THEN x.bool
    ELSE IF "int" \in DOMAIN x THEN x.int # 0
    ELSE x.float # 0

Digits == {"0", "1", "2", "3", "4", "5", "6", "7", "8", "9"}

DigitValue(c) ==
    CASE c = "0" -> 0 [] c = "1" -> 1 [] c = "2" -> 2 [] c = "3" -> 3
      [] c = "4" -> 4 [] c = "5" -> 5 [] c = "6" -> 6 [] c = "7" -> 7
      [] c = "8" -> 8 [] c = "9" -> 9

RECURSIVE Strip(_)
\* str.strip() of blanks, which int() and float() apply to their argument
Strip(s) ==
    IF s = <<>> THEN s
    ELSE IF Head(s) = " " THEN Strip(Tail(s))
    ELSE IF s[Len(s)] = " " THEN Strip(SubSeq(s, 1, Len(s) - 1))
    ELSE s

RECURSIVE Decimal(_)
Decimal(s) == IF s = <<>> THEN 0
              ELSE 10 * Decimal(SubSeq(s, 1, Len(s) - 1)) + DigitValue(s[Len(s)])

IsDecimal(s) == s # <<>> /\ \A i \in DOMAIN s : s[i] \in Digits

\* Map of pydantic schema types to python types
TYPE_MAPPING_keys == {"string", "integer", "number", "boolean"}

TYPE_MAPPING(t) ==
    CASE t = "string" -> "str"
      [] t = "integer" -> "int"
      [] t = "number" -> "float"
      [] t = "boolean" -> "bool"

\* pytype(s) for the python types of TYPE_MAPPING, on the strings of this
\* model (digits, blanks, letters, commas, backslashes: no sign, no point)
Call(pytype, s) ==
    CASE pytype = "str" -> Str(s)
      [] pytype = "bool" -> Bool(s # <<>>)
      [] pytype = "int" ->
            IF IsDecimal(Strip(s)) THEN Int(Decimal(Strip(s))) ELSE Raises
      [] pytype = "float" ->
            IF IsDecimal(Strip(s)) THEN Float(Decimal(Strip(s))) ELSE Raises

DEFAULT_SPLIT == " "

(***************************************************************************)
(* The schema: model.schema(alias)["properties"]                           *)
(***************************************************************************)
\* the value a schema entry holds under a key
Given(x) == [given |-> x]

\* One entry of the properties mapping.  items is the "type" of the entry's
\* "items"; split and default are Absent when the entry has no such key.
Property(name, type, items, sp, default) ==
    [name |-> name, type |-> type, items |-> items, split |-> sp,
     default |-> default]

\* field names, in declaration order; the second holds an underscore
FieldNames == << <<"x">>, <<"a", "_", "b">> >>

\* what a field can be declared as (everything of a property but its name)
Declarations ==
    { [type |-> "string", items |-> "", split |-> Absent, default |-> Absent],
      [type |-> "integer", items |-> "", split |-> Absent, default |-> Given(Int(1))],
      [type |-> "boolean", items |-> "", split |-> Absent, default |-> Given(Bool(FALSE))],
      [type |-> "boolean", items |-> "", split |-> Absent, default |-> Given(Bool(TRUE))],
      [type |-> "array", items |-> "string", split |-> Given(","), default |-> Absent],
      [type |-> "array", items |-> "integer", split |-> Absent, default |-> Absent],
      [type |-> "array", items |-> "integer", split |-> Given(","), default |-> Absent],
      [type |-> "array", items |-> "string", split |-> Absent,
         default |-> Given(List(<<Str(<<"a">>)>>))],
      [type |-> "object", items |-> "", split |-> Absent, default |-> Absent],
      [type |-> "array", items |-> "object", split |-> Absent, default |-> Absent] }

\* the schemas of zero fields up to Len(FieldNames) fields
Schemas ==
    UNION { { [i \in 1..n |-> Property(FieldNames[i], d[i].type, d[i].items,
                                        d[i].split, d[i].default)]
              : d \in [1..n -> Declarations] }
            : n \in 0..Len(FieldNames) }

\* dict.get(key, fallback)
Get(x, fallback) == IF IsAbsent(x) THEN fallback ELSE x.given

(***************************************************************************)
(* build_parser                                                            *)
(***************************************************************************)
\* argparse: the attribute an option "--name" is stored under
Dest(field) == Replace(field, "-", "_")

\* a slip: the declared default is not handed to the parser
AddArgumentNoDefault(field, field_type, default) ==
    [option |-> <<"-", "-">> \o field, dest |-> Dest(field),
     type |-> field_type, default |-> None]

\* parser.add_argument(f"--{field}", help=..., type=field_type, default=default):
\* no action is given, so the option stores one value token
AddArgument(field, field_type, default) ==
    [option |-> <<"-", "-">> \o field, dest |-> Dest(field),
     type |-> field_type, default |-> default]

\* arrays[field] = info
Put(table, key, info) ==
    [k \in DOMAIN table \cup {key} |-> IF k = key THEN info ELSE table[k]]

EmptyTable == [k \in {} |-> None]

RECURSIVE BuildFrom(_, _, _, _)
\* the loop over fields.items(): (parser, arrays), or FieldError
BuildFrom(props, i, options, table) ==
    IF i > Len(props) THEN [error |-> "none", parser |-> options, arrays |-> table]
    ELSE LET schema == props[i]
             \* argparse arguments use dash instead of underscore
             field == Replace(schema.name, "_", "-")
             default == Get(schema.default, None)
         IN  IF schema.type = "array"
             THEN IF schema.items \notin TYPE_MAPPING_keys
                  THEN [error |-> "FieldError", parser |-> options, arrays |-> table]
                  ELSE BuildFrom(props, i + 1,
                         Append(options, AddArgument(field, "str", default)),
                         Put(table, field,
                             [array_type |-> TYPE_MAPPING(schema.items),
                              split |-> Get(schema.split, DEFAULT_SPLIT)]))
             ELSE IF schema.type \notin TYPE_MAPPING_keys
                  THEN [error |-> "FieldError", parser |-> options, arrays |-> table]
                  ELSE BuildFrom(props, i + 1,
                         Append(options,
                                AddArgument(field, TYPE_MAPPING(schema.type), default)),
                         table)

build_parser(props) == BuildFrom(props, 1, <<>>, EmptyTable)

\* a slip: an empty properties mapping is not refused
NoPropertiesNever(props) == FALSE

\* load: "if not fields"
NoProperties(props) == props = <<>>

(***************************************************************************)
(* caep.config.handle_args: the three sources and their precedence         *)
(***************************************************************************)
\* a raw string supplied by a source
Raw(s) == [raw |-> s]
IsRaw(x) == "raw" \in DOMAIN x

Upper(c) == CASE c = "x" -> "X" [] c = "a" -> "A" [] c = "b" -> "B" [] OTHER -> c

Lower(c) == CASE c = "Y" -> "y" [] c = "T" -> "t" [] c = "E" -> "e" [] OTHER -> c

\* the environment variable of an option: uppercased, dashes as underscores
EnvName(option) ==
    LET name == Replace(SubSeq(option, 3, Len(option)), "-", "_")
    IN  [i \in DOMAIN name |-> Upper(name[i])]

\* the raw strings the sources supply for an option of each python type
CmdStrings(pytype) ==
    CASE pytype = "str" -> { <<"a", BS, ",", "b", ",", "c">>, <<"1", ",", "2">> }
      [] pytype = "int" -> { <<"7">>, <<"x">> }
      [] pytype = "float" -> { <<"7">>, <<"x">> }
      [] pytype = "bool" -> { <<"x">> }

EnvStrings(pytype) ==
    CASE pytype = "str" -> { <<>>, <<"1", ",", ",", "2">> }
      [] pytype = "int" -> { <<"4">> }
      [] pytype = "float" -> { <<"4">> }
      [] pytype = "bool" -> { <<"Y", "e", "s">>, <<"0">> }

IniStrings(pytype) ==
    CASE pytype = "str" -> { <<"1", " ", "2">> }
      [] pytype = "int" -> { <<"3">>, <<"x">> }
      [] pytype = "float" -> { <<"3">> }
      [] pytype = "bool" -> { <<"t", "r", "u", "e">> }

PyTypes == {"str", "int", "float", "bool"}

DestOf(p) == p.dest
EnvNameOf(p) == EnvName(p.option)

\* the key of an option in a source: "cmd", "env" or "ini"
KeyOf(source, p) == IF source = "env" THEN EnvNameOf(p) ELSE DestOf(p)

CmdChoices(t) == {Absent, NoValue} \cup {Raw(s) : s \in CmdStrings(t)}
EnvChoices(t) == {Absent} \cup {Raw(s) : s \in EnvStrings(t)}
IniChoices(t) == {Absent} \cup {Raw(s) : s \in IniStrings(t)}

\* what a source can hold for an option of a python type
ChoicesOf(source, t) ==
    CASE source = "cmd" -> CmdChoices(t)
      [] source = "env" -> EnvChoices(t)
      [] source = "ini" -> IniChoices(t)

\* the contents a source can have: one choice per option, under its key
Mappings(options, source) ==
    LET all == UNION {ChoicesOf(source, t) : t \in PyTypes}
        picks == {g \in [1..Len(options) -> all] :
                    \A i \in 1..Len(options) :
                        g[i] \in ChoicesOf(source, options[i].type)}
        keys == {KeyOf(source, options[i]) : i \in 1..Len(options)}
    IN  { [k \in keys |->
             g[CHOOSE i \in 1..Len(options) : KeyOf(source, options[i]) = k]]
          : g \in picks }

\* the tokens a boolean candidate value counts as true
TrueTokens == { <<"t", "r", "u", "e">>, <<"y", "e", "s">> }

\* the candidate value a source reader hands on for an option
Candidate(p, raw) ==
    IF p.type = "bool"
    THEN Bool([i \in DOMAIN raw |-> Lower(raw[i])] \in TrueTokens)
    ELSE Str(raw)

\* parser.set_defaults: the options a source supplies get its value as
\* their default, the others keep theirs
SetDefaults(options, source, contents) ==
    [i \in DOMAIN options |->
        LET given == contents[KeyOf(source, options[i])]
        IN  IF IsRaw(given)
            THEN [options[i] EXCEPT !.default = Candidate(options[i], given.raw)]
            ELSE options[i]]

\* argparse: the value of one option after parse_args(opts)
ParseOption(p, given) ==
    IF IsNoValue(given) THEN Raises             \* "expected one argument"
    ELSE IF IsRaw(given) THEN Call(p.type, given.raw)
    ELSE IF IsStr(p.default) THEN Call(p.type, p.default.str)
    ELSE p.default

\* parser.parse_args(opts): the Namespace, or the parser's error (exit 2)
ParseArgs(options, cmdline) ==
    LET dests == {options[i].dest : i \in DOMAIN options}
        at(d) == CHOOSE i \in DOMAIN options : options[i].dest = d
        ns == [d \in dests |-> ParseOption(options[at(d)], cmdline[d])]
    IN  [error |-> \E d \in dests : IsRaises(ns[d]), namespace |-> ns]

\* handle_args: ini values become defaults, environment values override
\* them, and the command line overrides both
handle_args(options, cmdline, env, section) ==
    ParseArgs(SetDefaults(SetDefaults(options, "ini", section), "env", env),
              cmdline)

(***************************************************************************)
(* split_lists                                                             *)
(***************************************************************************)
\* [array_type(v) for v in re.split(rf"(?<!\\){split}", value)]
SplitValue(raw, info) ==
    LET parts == ReSplit(raw, info.split)
        items == [k \in DOMAIN parts |-> Call(info.array_type, parts[k])]
    IN  IF \E k \in DOMAIN items : IsRaises(items[k])
        THEN Raises
        ELSE List(items)

RECURSIVE SplitFrom(_, _, _, _, _)
\* the loop over vars(args).items(), in the Namespace's order
SplitFrom(options, i, namespace, table, out) ==
    IF i > Len(options) THEN [error |-> "none", kwargs |-> out]
    ELSE LET field == options[i].dest
             v == namespace[field]
         IN  IF field \in DOMAIN table
             THEN IF ~Truthy(v)
                  THEN SplitFrom(options, i + 1, namespace, table,
                                 Put(out, field, List(<<>>)))
                  ELSE IF ~IsStr(v)
                  THEN [error |-> "TypeError", kwargs |-> out]  \* re.split of a list
                  ELSE IF IsRaises(SplitValue(v.str, table[field]))
                  THEN [error |-> "ValueError", kwargs |-> out]
                  ELSE SplitFrom(options, i + 1, namespace, table,
                                 Put(out, field, SplitValue(v.str, table[field])))
             ELSE SplitFrom(options, i + 1, namespace, table, Put(out, field, v))

split_lists(options, namespace, table) ==
    SplitFrom(options, 1, namespace, table, EmptyTable)

(***************************************************************************)
(* The model's constructor and the handling of its ValidationError         *)
(***************************************************************************)
\* pydantic's check of one field: the error message, or "" when it passes
FieldCheck(schema, v) ==
    IF IsNone(v) THEN "none is not an allowed value"
    ELSE IF schema.type = "array" /\ ~IsList(v) THEN "value is not a valid list"
    ELSE ""

RECURSIVE ErrorsFrom(_, _, _)
\* e.errors(): one entry per failing field, in declaration order
ErrorsFrom(props, i, given) ==
    IF i > Len(props) THEN <<>>
    ELSE LET msg == FieldCheck(props[i], given[props[i].name])
         IN  (IF msg = "" THEN <<>> ELSE <<[loc |-> props[i].name, msg |-> msg]>>)
             \o ErrorsFrom(props, i + 1, given)

Errors(props, given) == ErrorsFrom(props, 1, given)

\* print(f"{msg} for --{argument}\n")
ErrorLine(error) ==
    [msg |-> error.msg, for |-> <<"-", "-">> \o Replace(error.loc, "_", "-")]

\* parser.print_help()
Help == [msg |-> "help", for |-> <<>>]

\* a slip: the report is printed and the process exits whatever the flag is
ExceptAlwaysExits(raise, errors) ==
    [outcome |-> "exit1",
     stdout |-> [k \in DOMAIN errors |-> ErrorLine(errors[k])] \o <<Help>>]

\* load's except ValidationError branch
Except(raise, errors) ==
    IF raise
    THEN [outcome |-> "ValidationError", stdout |-> <<>>]
    ELSE [outcome |-> "exit1",
          stdout |-> [k \in DOMAIN errors |-> ErrorLine(errors[k])] \o <<Help>>]

NoObject == [noobject |-> TRUE]
Object(props, given) ==
    [object |-> [n \in {props[i].name : i \in DOMAIN props} |-> given[n]]]

(***************************************************************************)
(* load, step by step                                                      *)
(***************************************************************************)
SplitIdle == value = <<>> /\ split = DEFAULT_SPLIT /\ tokens = <<>> /\ spc = "idle"

Init ==
    /\ SplitIdle
    /\ fields \in Schemas
    /\ raise_on_validation_error \in BOOLEAN
    /\ exit_on_validation_error \in BOOLEAN
    /\ pc = "start"
    /\ parser = <<>>
    /\ arrays = EmptyTable
    /\ opts = EmptyTable
    /\ environ = EmptyTable
    /\ ini = EmptyTable
    /\ read = FALSE
    /\ args = EmptyTable
    /\ kwargs = EmptyTable
    /\ outcome = "none"
    /\ stdout = <<>>
    /\ result = NoObject

\* load, lines 147-153: the schema's properties and the parser built from them
BuildParser ==
    /\ pc = "start"
    /\ LET built == build_parser(fields)
       IN  IF NoProperties(fields)
           THEN /\ outcome' = "SchemaError"
                /\ pc' = "done"
                /\ UNCHANGED <<parser, arrays>>
           ELSE IF built.error # "none"
           THEN /\ outcome' = built.error
                /\ pc' = "done"
                /\ UNCHANGED <<parser, arrays>>
           ELSE /\ parser' = built.parser
                /\ arrays' = built.arrays
                /\ pc' = "built"
                /\ UNCHANGED outcome
    /\ UNCHANGED <<fields, raise_on_validation_error, exit_on_validation_error,
                   opts, environ, ini, read,
                   args, kwargs, stdout, result>>
    /\ UNCHANGED splitVars

\* load, lines 156-158: caep.config.handle_args reads the three sources
HandleArgs ==
    /\ pc = "built"
    /\ \E cmdline \in Mappings(parser, "cmd"),
          env \in Mappings(parser, "env"),
          section \in Mappings(parser, "ini") :
          LET parsed == handle_args(parser, cmdline, env, section)
          IN  /\ opts' = cmdline
              /\ environ' = env
              /\ ini' = section
              /\ read' = TRUE
              /\ IF parsed.error
                 THEN /\ outcome' = "exit2"
                      /\ pc' = "done"
                      /\ UNCHANGED args
                 ELSE /\ args' = parsed.namespace
                      /\ pc' = "parsed"
                      /\ UNCHANGED outcome
    /\ UNCHANGED <<fields, raise_on_validation_error, exit_on_validation_error,
                   parser, arrays, kwargs,
                   stdout, result>>
    /\ UNCHANGED splitVars

\* load, lines 155-160: split_lists on the Namespace
SplitLists ==
    /\ pc = "parsed"
    /\ LET done == split_lists(parser, args, arrays)
       IN  IF done.error # "none"
           THEN /\ outcome' = done.error
                /\ pc' = "done"
                /\ UNCHANGED kwargs
           ELSE /\ kwargs' = done.kwargs
                /\ pc' = "split"
                /\ UNCHANGED outcome
    /\ UNCHANGED <<fields, raise_on_validation_error, exit_on_validation_error,
                   parser, arrays, opts,
                   environ, ini, read, args, stdout, result>>
    /\ UNCHANGED splitVars

\* load, lines 162-181: the object, or the handling of the ValidationError
Validate ==
    /\ pc = "split"
    /\ LET errors == Errors(fields, kwargs)
           handled == Except(raise_on_validation_error, errors)
       IN  IF errors = <<>>
           THEN /\ result' = Object(fields, kwargs)
                /\ outcome' = "returned"
                /\ UNCHANGED stdout
           ELSE /\ outcome' = handled.outcome
                /\ stdout' = handled.stdout
                /\ UNCHANGED result
    /\ pc' = "done"
    /\ UNCHANGED <<fields, raise_on_validation_error, exit_on_validation_error,
                   parser, arrays, opts,
                   environ, ini, read, args, kwargs>>
    /\ UNCHANGED splitVars

Next == BuildParser \/ HandleArgs \/ SplitLists \/ Validate

Spec == Init /\ [][Next]_vars

(***************************************************************************)
(* escape_split as a call of its own                                       *)
(***************************************************************************)
LoadIdle ==
    /\ fields = <<>>
    /\ raise_on_validation_error = FALSE
    /\ exit_on_validation_error = TRUE
    /\ pc = "idle"
    /\ parser = <<>>
    /\ arrays = EmptyTable
    /\ opts = EmptyTable
    /\ environ = EmptyTable
    /\ ini = EmptyTable
    /\ read = FALSE
    /\ args = EmptyTable
    /\ kwargs = EmptyTable
    /\ outcome = "none"
    /\ stdout = <<>>
    /\ result = NoObject

InitSplit ==
    /\ LoadIdle
    /\ value \in StringsUpTo(MaxLen)
    /\ split \in Delims
    /\ tokens = <<>>
    /\ spc = "call"

EscapeSplit ==
    /\ spc = "call"
    /\ tokens' = escape_split(value, split)
    /\ spc' = "done"
    /\ UNCHANGED <<value, split>>
    /\ UNCHANGED loadVars

NextSplit == EscapeSplit

SpecSplit == InitSplit /\ [][NextSplit]_vars

(***************************************************************************)
(* Properties of escape_split (checked under SpecSplit)                    *)
(***************************************************************************)
\* the occurrences of the delimiter not immediately preceded by a backslash
UnescapedDelims(v, sp) == {i \in DOMAIN v : v[i] = sp /\ (i = 1 \/ v[i - 1] # BS)}

\* the k-th of them; 0 before the string and Len + 1 after it
Boundary(v, sp, k) ==
    IF k = 0 THEN 0
    ELSE IF k > Cardinality(UnescapedDelims(v, sp)) THEN Len(v) + 1
    ELSE CHOOSE p \in UnescapedDelims(v, sp) :
            Cardinality({q \in UnescapedDelims(v, sp) : q < p}) = k - 1

\* the substring of v between the (k-1)-th and the k-th of them
Between(v, sp, k) == SubSeq(v, Boundary(v, sp, k - 1) + 1, Boundary(v, sp, k) - 1)

RECURSIVE WithoutEscapes(_, _, _)
\* t from position j on, without the backslashes that immediately precede
\* the delimiter
WithoutEscapes(t, sp, j) ==
    IF j > Len(t) THEN <<>>
    ELSE IF t[j] = BS /\ j < Len(t) /\ t[j + 1] = sp
         THEN WithoutEscapes(t, sp, j + 1)
         ELSE <<t[j]>> \o WithoutEscapes(t, sp, j + 1)

\* C3: escape_split(value, split) returns, in order, the substrings of value
\* between the occurrences of the delimiter that no backslash immediately
\* precedes, each with the backslashes in front of its escaped delimiters
\* removed and otherwise unchanged; empty tokens are retained, and the empty
\* string gives the one token "".
C3_SplitsOnUnescapedDelimiters ==
    spc = "done" =>
        /\ Len(tokens) = Cardinality(UnescapedDelims(value, split)) + 1
        /\ \A k \in DOMAIN tokens :
              tokens[k] = WithoutEscapes(Between(value, split, k), split, 1)

\* the backslashes of v whose next character is not the delimiter
LoneBackslashes(v, sp) ==
    {i \in DOMAIN v : v[i] = BS /\ ~(i < Len(v) /\ v[i + 1] = sp)}

\* the backslashes of v that immediately follow a backslash
FollowingBackslashes(v) == {i \in DOMAIN v : i > 1 /\ v[i] = BS /\ v[i - 1] = BS}

\* C4 as stated: every backslash whose next character is not the delimiter
\* is still present in the output tokens.
C4_LoneBackslashPreserved ==
    spc = "done" =>
        Count(Flatten(tokens), BS) >= Cardinality(LoneBackslashes(value, split))

\* C4 as amended: a backslash survives only if it immediately follows a
\* backslash of the input, whatever comes after it; for a delimiter that is
\* an ordinary character the output holds exactly those backslashes.
C4_OnlyFollowingBackslashesSurvive ==
    spc = "done" =>
        /\ Count(Flatten(tokens), BS) <= Cardinality(FollowingBackslashes(value))
        /\ split # "." =>
              Count(Flatten(tokens), BS) = Cardinality(FollowingBackslashes(value))

\* a lone backslash in the middle of a token and one at its end are gone
C4_Witness ==
    /\ spc = "done"
    /\ split = ","
    /\ value = <<"a", BS, "a", BS>>
    /\ tokens = << <<"a", "a">> >>

(***************************************************************************)
(* Properties of load (checked under Spec)                                 *)
(***************************************************************************)
\* handle_args returned a Namespace
Resolved == DOMAIN args # {}

\* split_lists returned
Materialized == DOMAIN kwargs # {}

\* the typed value a source's raw string stands for
SourceValue(pytype, raw, fromCommandLine) ==
    IF pytype = "bool" /\ ~fromCommandLine
    THEN Bool([i \in DOMAIN raw |-> Lower(raw[i])] \in TrueTokens)
    ELSE Call(pytype, raw)

\* C1: every field resolves to the value of the highest-priority source
\* that supplies one (command line, then environment, then ini section),
\* whatever the others hold, and to its declared default when none does.
C1_Precedence ==
    Resolved =>
        \A i \in DOMAIN parser :
            LET p == parser[i]
                c == opts[p.dest]
                e == environ[EnvName(p.option)]
                n == ini[fields[i].name]
            IN  args[p.dest] =
                    IF IsRaw(c) THEN SourceValue(p.type, c.raw, TRUE)
                    ELSE IF IsRaw(e) THEN SourceValue(p.type, e.raw, FALSE)
                    ELSE IF IsRaw(n) THEN SourceValue(p.type, n.raw, FALSE)
                    ELSE IF ~IsAbsent(fields[i].default) THEN fields[i].default.given
                    ELSE None

\* the environment beats the ini section, and a default is used
C1_Witness ==
    /\ pc = "parsed"
    /\ Len(parser) = 2
    /\ parser[1].type = "int"
    /\ IsAbsent(opts[parser[1].dest])
    /\ IsRaw(environ[EnvName(parser[1].option)])
    /\ IsRaw(ini[parser[1].dest])
    /\ args[parser[1].dest] = Int(4)
    /\ parser[2].type = "bool"
    /\ IsAbsent(opts[parser[2].dest])
    /\ IsAbsent(environ[EnvName(parser[2].option)])
    /\ IsAbsent(ini[parser[2].dest])
    /\ args[parser[2].dest] = Bool(TRUE)

\* the parser's option of the field an error is located at
OptionOf(loc) == parser[CHOOSE i \in DOMAIN fields : fields[i].name = loc].option

\* C2: when the construction of the object fails validation, load re-raises
\* the ValidationError and prints nothing if raise_on_validation_error is
\* true, and otherwise prints one line "<message> for --<option>" per
\* reported error, then the help text, and exits with status 1; it never
\* returns an object.
C2_ValidationFailure ==
    (pc = "done" /\ Materialized /\ Errors(fields, kwargs) # <<>>) =>
        LET errors == Errors(fields, kwargs)
        IN  /\ result = NoObject
            /\ outcome # "returned"
            /\ raise_on_validation_error =>
                  outcome = "ValidationError" /\ stdout = <<>>
            /\ ~raise_on_validation_error =>
                  /\ outcome = "exit1"
                  /\ Len(stdout) = Len(errors) + 1
                  /\ stdout[Len(stdout)] = Help
                  /\ \A k \in DOMAIN errors :
                        /\ stdout[k].msg = errors[k].msg
                        /\ stdout[k].for = OptionOf(errors[k].loc)

\* two fields fail, the second one named with an underscore, and the
\* process exits although exit_on_validation_error is false
C2_Witness ==
    /\ pc = "done"
    /\ ~raise_on_validation_error
    /\ ~exit_on_validation_error
    /\ outcome = "exit1"
    /\ Len(stdout) = 3
    /\ stdout[2].for = <<"-", "-", "a", "-", "b">>

\* some field's type, or some list field's element type, is not supported
Unsupported(props) ==
    \E i \in DOMAIN props :
        IF props[i].type = "array"
        THEN props[i].items \notin {"string", "integer", "number", "boolean"}
        ELSE props[i].type \notin {"string", "integer", "number", "boolean"}

ListFields == {i \in DOMAIN fields : fields[i].type = "array"}

\* what escape_split and the element type make of a raw string
Expected(i, raw) ==
    LET parts == escape_split(raw, Get(fields[i].split, DEFAULT_SPLIT))
    IN  List([k \in DOMAIN parts |-> Call(TYPE_MAPPING(fields[i].items), parts[k])])

\* C5: the list that load passes to validation for a list field with a
\* non-empty resolved raw string is escape_split of that string with the
\* field's delimiter, each token converted to the element type.
C5_ListIsEscapeSplit ==
    Materialized =>
        \A i \in ListFields :
            LET d == fields[i].name
            IN  (IsStr(args[d]) /\ args[d].str # <<>> /\ IsList(kwargs[d]))
                    => kwargs[d] = Expected(i, args[d].str)

\* C6: a boolean field's option takes no value token: the flag alone
\* resolves the field to the negation of its default, and its absence from
\* every source to the default.
C6_BooleanToggle ==
    read =>
        \A i \in DOMAIN fields :
            fields[i].type = "boolean" =>
                LET d == fields[i].name
                IN  /\ IsNoValue(opts[d]) =>
                          /\ outcome # "exit2"
                          /\ Resolved
                          /\ args[d] = Bool(~fields[i].default.given.bool)
                    /\ (/\ Resolved
                        /\ IsAbsent(opts[d])
                        /\ IsAbsent(environ[EnvName(parser[i].option)])
                        /\ IsAbsent(ini[d])) => args[d] = fields[i].default.given

\* C8: split_lists yields the empty list for every list field whose
\* resolved value is None or the empty string.
C8_EmptyYieldsEmptyList ==
    Materialized =>
        \A i \in ListFields :
            LET d == fields[i].name
            IN  (IsNone(args[d]) \/ args[d] = Str(<<>>)) => kwargs[d] = List(<<>>)

\* some token of list field i's raw string is not of the element type
BadToken(i) ==
    LET d == fields[i].name
    IN  /\ IsStr(args[d])
        /\ \E tok \in {ReSplit(args[d].str, Get(fields[i].split, DEFAULT_SPLIT))[k] :
                         k \in DOMAIN ReSplit(args[d].str,
                                              Get(fields[i].split, DEFAULT_SPLIT))} :
              IsRaises(Call(TYPE_MAPPING(fields[i].items), tok))

\* C9: when a token of a list field cannot be converted to the element
\* type, load ends by re-raising a ValidationError or by the printed report
\* and exit status 1, and with no other exception.
C9_BadTokenIsValidationFailure ==
    (pc = "done" /\ Resolved /\ \E i \in ListFields : BadToken(i)) =>
        /\ raise_on_validation_error => outcome = "ValidationError"
        /\ ~raise_on_validation_error => outcome = "exit1"

\* C10: every list field is recorded in the arrays table under the key it
\* has in the Namespace, so none reaches validation as the raw string.
C10_ListFieldsAreMaterialized ==
    Materialized =>
        \A i \in ListFields :
            /\ fields[i].name \in DOMAIN arrays
            /\ ~IsStr(kwargs[fields[i].name])

====
